---- MODULE Spec2Model ----
(***************************************************************************)
(* Asset Job Client of EscapeTwogether: the three batch scripts            *)
(*   src/scripts/generate_room_assets.py        ("room")                   *)
(*   src/generate_puzzle_assets.py              ("puzzle")                 *)
(*   src/scripts/generate_additional_assets.py  ("additional")             *)
(* Each script runs main, which calls generate_asset for every catalog     *)
(* entry; generate_asset runs create_workflow, queue_prompt,               *)
(* wait_for_completion, get_output_images and download_image against a     *)
(* remote service whose answers are chosen nondeterministically.           *)
(***************************************************************************)
EXTENDS Integers, Sequences, FiniteSets, TLC

\* ------------------------------------------------------------------ bounds
\* Number of catalog entries of the batch.
CatalogSize == 2
\* Largest timeout (seconds) wait_for_completion is started with.
MaxTimeout == 4
\* Longest time (seconds) one history poll takes.
MaxPollDur == 1
\* Most result nodes in the outputs of a history record.
MaxNodes == 2
\* Most images in one result node.
MaxImages == 2
\* Most invocations of create_workflow made for one request.
MaxBuilds == 2

\* ------------------------------------------------------- program constants
\* time.sleep(2) at the end of each iteration of the polling loop.
POLL_INTERVAL == 2
\* The upper end of random.randint(1, 999999999).
SEED_MAX == 999999999
\* CHECKPOINT, the model file named in node "4".
CHECKPOINT == "DreamShaper_8_pruned.safetensors"

Scripts == {"room", "puzzle", "additional"}

\* prompt_id when the submission response carries no "prompt_id" key:
\* result.get('prompt_id') is None.
None == "None"
\* Job identifiers the remote service assigns: opaque strings, one for each
\* submission it accepts.
JobIds == { ToString(k) : k \in 1..CatalogSize }
\* The identifier the service gives to the next submission it accepts, having
\* assigned those in used: one it has not assigned before. As identifiers
\* are opaque, taking them in a fixed order leaves out no behaviour.
NewJobId(used) == ToString(Cardinality(used) + 1)

\* OUTPUT_DIR, and the one sub-directory catalog file names may name.
OUTPUT_DIR == "OUT"
SubDir == "OUT/d"
AllDirs == {OUTPUT_DIR, SubDir}

\* asset['filename'] of catalog entry k: odd entries are nested
\* ("d/<k>.png", like "room-backgrounds/room1-attic.png"), even ones flat.
Nested(k) == k % 2 = 1
Catalog == 1..CatalogSize

\* os.path.join(OUTPUT_DIR, asset['filename']): the destination of entry k,
\* given as the entry itself; its parent directory is dirname(output_path).
dirname(k) == IF Nested(k) THEN SubDir ELSE OUTPUT_DIR

\* The directories os.makedirs(d, exist_ok=True) leaves in existence: d and
\* every ancestor of d.
makedirs(d) == IF d = SubDir THEN {OUTPUT_DIR, SubDir} ELSE {OUTPUT_DIR}

\* ------------------------------------------------------------------ state
VARIABLES
    script,        \* which of the three scripts runs
    timeout,       \* the timeout parameter of wait_for_completion
    dirs,          \* directories that exist
    files,         \* files[k]: state of the file at entry k's destination
    mainPc,        \* position of main
    i,             \* loop index of main (1-based)
    successful,    \* main's counter
    failed,        \* main's counter
    calls,         \* catalog entries generate_asset was called for, in order
    pc,            \* position of the current generate_asset call
    result,        \* its return value, once it has returned
    prompt_id,     \* returned by queue_prompt
    client_id,     \* returned by queue_prompt
    uuids,         \* the uuid4 values drawn so far
    elapsed,       \* time.time() - start_time in wait_for_completion
    pollLog,       \* what each poll of the current wait observed
    sleeps,        \* time.sleep(2) calls of the current wait
    waitResult,    \* return value of wait_for_completion
    history,       \* body parsed by get_output_images
    images,        \* list returned by get_output_images
    steps,         \* steps the current generate_asset call has taken
    viewed,        \* Output References requested from /view by this call
    written,       \* destinations this call opened for writing
    submitOutcome, \* what the service answered to POST /prompt
    fetchOutcome,  \* how get_output_images ended
    viewOutcome,   \* what the service answered to GET /view
    ioOutcome,     \* how the file-system part of download_image ended
    assigned,      \* job identifiers the service has assigned so far
    named,         \* identifiers named in this call's GET /history requests
    track,         \* request states this call has entered, in order
    request,       \* the Asset Request create_workflow is called for
    built          \* create_workflow invocations made on request, in order

vars == <<script, timeout, dirs, files, mainPc, i, successful, failed, calls,
          pc, result, prompt_id, client_id, uuids, elapsed, pollLog,
          sleeps, waitResult, history, images, steps, viewed, written,
          submitOutcome, fetchOutcome, viewOutcome, ioOutcome, assigned,
          named, track, request, built>>

\* Never changed by a batch run: the script, the timeout, and the state of
\* create_workflow called on its own.
env == <<script, timeout, request, built>>
fs == <<dirs, files>>
counters == <<successful, failed>>

\* ------------------------------------------------- history records (JSON)
\* dict.get(key, default)
Get(d, key, default) == IF key \in DOMAIN d THEN d[key] ELSE default

\* Entries of an "images" list: one without subfolder and type, one with
\* both, and a malformed one without "filename".
ImageInfos ==
    { [filename |-> "f1"],
      [filename |-> "f2", subfolder |-> "s", type |-> "temp"],
      [subfolder |-> "s"] }

ImageLists(maxI) == UNION { [1..m -> ImageInfos] : m \in 0..maxI }

\* A result node: with an "images" list, or without one.
OutputNodes(maxI) ==
    { [images |-> l] : l \in ImageLists(maxI) } \cup { [text |-> "t"] }

\* history[prompt_id]['outputs']: the result nodes in the order the dict
\* yields them (the node identifiers are not read by the code).
OutputsOf(maxN, maxI) == UNION { [1..m -> OutputNodes(maxI)] : m \in 0..maxN }

\* history[prompt_id]: with or without the "outputs" key.
Records(maxN, maxI) ==
    { [outputs |-> o] : o \in OutputsOf(maxN, maxI) } \cup { [status |-> "x"] }

\* The JSON object GET /history/{prompt_id} answers with: empty, or one
\* record under one job identifier.
EmptyBody == [j \in {} |-> [status |-> "x"]]
Bodies(maxN, maxI) ==
    {EmptyBody} \cup
    { [j \in {k} |-> r] : k \in JobIds, r \in Records(maxN, maxI) }

\* Faulty variant of OutputRef: the two defaults are swapped.
OutputRefSwapped(image_info) ==
    [ filename  |-> image_info.filename,
      subfolder |-> Get(image_info, "subfolder", "output"),
      type      |-> Get(image_info, "type", "") ]

\* The dict appended at lines 310-314.
OutputRef(image_info) ==
    [ filename  |-> image_info.filename,
      subfolder |-> Get(image_info, "subfolder", ""),
      type      |-> Get(image_info, "type", "output") ]

\* The inner loop (lines 309-314) over one node's images.
RECURSIVE NodeImages(_)
NodeImages(l) ==
    IF l = <<>> THEN <<>>
    ELSE <<OutputRef(Head(l))>> \o NodeImages(Tail(l))

\* The outer loop (lines 307-314) over the result nodes.
RECURSIVE FlattenOutputs(_)
FlattenOutputs(outputs) ==
    IF outputs = <<>> THEN <<>>
    ELSE (IF "images" \in DOMAIN Head(outputs)
            THEN NodeImages(Head(outputs).images)
            ELSE <<>>) \o FlattenOutputs(Tail(outputs))

\* image_info['filename'] raises KeyError on the first image without it.
RaisesKeyError(outputs) ==
    \E n \in 1..Len(outputs) :
        /\ "images" \in DOMAIN outputs[n]
        /\ \E k \in 1..Len(outputs[n].images) :
               "filename" \notin DOMAIN outputs[n].images[k]

\* get_output_images on a parsed body: how it ends and what it returns.
get_output_images(body, id) ==
    IF id \notin DOMAIN body
    THEN [end |-> "absent", images |-> <<>>]
    ELSE LET outputs == Get(body[id], "outputs", <<>>) IN
         IF RaisesKeyError(outputs)
         THEN [end |-> "keyerror", images |-> <<>>]
         ELSE [end |-> "returned", images |-> FlattenOutputs(outputs)]

\* ------------------------------------------------------ decisions in code
\* Answers of the service to POST /prompt.
SubmitAnswers == {"neterr", "badjson", "noid"} \cup JobIds

\* queue_prompt raises: urlopen fails or json.loads fails. A JSON object
\* without "prompt_id" does not raise: result.get('prompt_id') is None.
QueueRaises(answer) == answer \in {"neterr", "badjson"}

\* The prompt_id queue_prompt returns for an answer it does not raise on.
PromptIdOf(answer) == IF answer = "noid" THEN None ELSE answer

\* What one poll of GET /history/{prompt_id} observes.
PollAnswers == {"neterr", "badjson", "absent", "present"}

\* Faulty variant of InHistory: any poll that parsed counts as completion.
InHistoryAnyBody(answer) == answer \in {"present", "absent"}

\* `prompt_id in history` after a poll that did not raise.
InHistory(answer) == answer = "present"

\* Faulty variant of AfterPoll: a poll that raises ends the loop.
AfterPollGiveUp(answer) ==
    IF InHistory(answer) THEN "return True"
    ELSE IF answer \in {"neterr", "badjson"} THEN "return False"
    ELSE "sleep"

\* What the loop does after a poll: `return True` when the identifier is in
\* the parsed body; otherwise (also when the try block raised and the
\* except clause printed the error) it goes on to time.sleep(2).
AfterPoll(answer) == IF InHistory(answer) THEN "return True" ELSE "sleep"

\* Faulty variant of HistoryPath: the URL keeps naming the first job.
HistoryPathFirstJob(id) == "1"

\* The identifier in f"{COMFYUI_URL}/history/{prompt_id}".
HistoryPath(id) == id

\* Faulty variant of uuid4: one client identifier for the whole run.
uuid4Once(drawn) == 1

\* str(uuid.uuid4()) when the values in drawn have been drawn before: a
\* value that is not among them.
uuid4(drawn) == Cardinality(drawn) + 1

\* An asset dictionary without 'width', 'height' and 'steps', after
\* asset.get('width', 512), asset.get('height', 512), asset.get('steps', 25).
DefaultRequest ==
    [prompt |-> "p", negative |-> "n", width |-> 512, height |-> 512,
     steps |-> 25]

\* Faulty variant of PauseAfter: the pause is made after every entry.
PauseAfterEvery(k) == TRUE

\* `if i < len(ALL_ASSETS) - 1`, for the k-th entry (i = k - 1).
PauseAfter(k) == k - 1 < CatalogSize - 1

\* Faulty variant of LoopCond: `<=`, one more poll at the deadline itself.
LoopCondInclusive(e, t) == e <= t

\* Faulty variant of LoopCond: the last sleep is not counted against the deadline.
LoopCondLate(e, t) == e - POLL_INTERVAL < t

\* The loop condition time.time() - start_time < timeout.
LoopCond(e, t) == e < t

\* Faulty variant of NotCompleted: the return value of the wait is ignored.
NotCompletedIgnored(w) == FALSE

\* `if not wait_for_completion(...)`: generate_asset returns False.
NotCompleted(w) == ~w

\* `if not images`: generate_asset returns False.
NoImages(imgs) == imgs = <<>>

\* Faulty variant of FirstImage: the last reference is taken.
LastImage(imgs) == imgs[Len(imgs)]

\* images[0], the reference handed to download_image.
FirstImage(imgs) == imgs[1]

\* download_image of this script calls os.makedirs before open().
HasMakedirs(s) == s = "room"

\* Faulty variant of BytesReceived: the destination is prepared and opened
\* before the answer to GET /view is known.
BytesReceivedAssumed(view) == TRUE

\* download_image gets as far as os.makedirs / open(output_path, 'wb'):
\* urlopen and response.read() have not raised.
BytesReceived(view) == view = "ok"

\* Faults the file system may answer with in download_image.
IoAnswers(s) ==
    {"ok", "openerr", "writeerr"} \cup
    (IF HasMakedirs(s) THEN {"mkdirerr"} ELSE {})

\* Faulty variant of DownloadOk: a failed write is not reported.
DownloadOkUnchecked(view, io) == view = "ok"

\* download_image returns True: nothing in its try block raised.
DownloadOk(view, io) == view = "ok" /\ io = "ok"

\* ------------------------------------------------------------------- Init
InitLocals ==
    /\ pc = "idle"
    /\ result = FALSE
    /\ prompt_id = None
    /\ client_id = 0
    /\ elapsed = 0
    /\ pollLog = <<>>
    /\ sleeps = 0
    /\ waitResult = FALSE
    /\ images = <<>>
    /\ steps = <<>>
    /\ viewed = <<>>
    /\ written = <<>>
    /\ submitOutcome = "none"
    /\ fetchOutcome = "none"
    /\ viewOutcome = "none"
    /\ ioOutcome = "none"
    /\ named = <<>>
    /\ track = <<>>

\* The file system before the run: nothing, OUTPUT_DIR only, both
\* directories, or both directories with the files of an earlier run.
InitFs ==
    \/ /\ dirs \in {{}, {OUTPUT_DIR}, AllDirs}
       /\ files = [k \in Catalog |-> "absent"]
    \/ /\ dirs = AllDirs
       /\ files = [k \in Catalog |-> "old"]

Init ==
    /\ script \in Scripts
    /\ timeout \in -1..MaxTimeout
    /\ InitFs
    /\ mainPc = "start"
    /\ i = 1
    /\ successful = 0
    /\ failed = 0
    /\ calls = <<>>
    /\ uuids = {}
    /\ history = EmptyBody
    /\ assigned = {}
    /\ request = DefaultRequest
    /\ built = <<>>
    /\ InitLocals

\* ------------------------------------------------------------------- main
\* main up to the loop: os.makedirs(OUTPUT_DIR, exist_ok=True), counters 0.
main_start ==
    /\ mainPc = "start"
    /\ dirs' = dirs \cup makedirs(OUTPUT_DIR)
    /\ mainPc' = "loop"
    /\ UNCHANGED <<env, files, i, successful, failed, calls, pc, result,
                   prompt_id, client_id, uuids, elapsed, pollLog, sleeps,
                   waitResult, history, images, steps, viewed, written,
                   submitOutcome, fetchOutcome, viewOutcome, ioOutcome,
                   assigned, named, track>>

\* generate_asset is entered for entry i and builds the workflow.
create_workflow ==
    /\ mainPc = "loop"
    /\ pc = "idle"
    /\ calls' = Append(calls, i)
    /\ steps' = <<"create_workflow">>
    /\ pc' = "built"
    /\ track' = <<"Built">>
    /\ UNCHANGED <<env, fs, mainPc, i, counters, result, prompt_id,
                   client_id, uuids, elapsed, pollLog, sleeps, waitResult,
                   history, images, viewed, written, submitOutcome,
                   fetchOutcome, viewOutcome, ioOutcome, assigned, named>>

\* queue_prompt and the try/except around it; on success generate_asset
\* goes on to call wait_for_completion, which reads start_time.
queue_prompt ==
    /\ pc = "built"
    /\ \E answer \in SubmitAnswers :
        /\ answer \in JobIds => answer = NewJobId(assigned)
        /\ assigned' = IF answer \in JobIds
                        THEN assigned \cup {answer} ELSE assigned
        /\ submitOutcome' = answer
        /\ client_id' = uuid4(uuids)
        /\ uuids' = uuids \cup {client_id'}
        /\ IF QueueRaises(answer)
           THEN /\ steps' = Append(steps, "queue_prompt")
                /\ track' = Append(track, "Failed")
                /\ result' = FALSE
                /\ pc' = "done"
                /\ UNCHANGED prompt_id
           ELSE /\ steps' = steps \o <<"queue_prompt", "wait_for_completion">>
                /\ track' = Append(track, "Submitted")
                /\ prompt_id' = PromptIdOf(answer)
                /\ pc' = "wait"
                /\ UNCHANGED result
    /\ UNCHANGED <<env, fs, mainPc, i, counters, calls, elapsed, pollLog,
                   sleeps, waitResult, history, images, viewed, written,
                   fetchOutcome, viewOutcome, ioOutcome, named>>

\* One iteration of the polling loop up to its sleep: the loop condition
\* holds, the history request is made and takes d seconds. A JSON object
\* has string keys only, so it never holds the key None.
poll ==
    /\ pc = "wait"
    /\ LoopCond(elapsed, timeout)
    /\ \E answer \in PollAnswers, d \in 0..MaxPollDur :
        /\ answer = "present" => prompt_id # None
        /\ pollLog' = Append(pollLog, answer)
        /\ named' = Append(named, HistoryPath(prompt_id))
        /\ elapsed' = elapsed + d
        /\ IF AfterPoll(answer) = "return True"
           THEN /\ waitResult' = TRUE
                /\ track' = Append(track, "Completed")
                /\ pc' = "waited"
           ELSE IF AfterPoll(answer) = "sleep"
           THEN /\ pc' = "sleep"
                /\ UNCHANGED <<waitResult, track>>
           ELSE /\ waitResult' = FALSE
                /\ track' = Append(track, "TimedOut")
                /\ pc' = "waited"
    /\ UNCHANGED <<env, fs, mainPc, i, counters, calls, result, prompt_id,
                   client_id, uuids, sleeps, history, images, steps, viewed,
                   written, submitOutcome, fetchOutcome, viewOutcome,
                   ioOutcome, assigned>>

\* time.sleep(2) at the end of an iteration.
sleep ==
    /\ pc = "sleep"
    /\ elapsed' = elapsed + POLL_INTERVAL
    /\ sleeps' = sleeps + 1
    /\ pc' = "wait"
    /\ UNCHANGED <<env, fs, mainPc, i, counters, calls, result, prompt_id,
                   client_id, uuids, pollLog, waitResult, history, images,
                   steps, viewed, written, submitOutcome, fetchOutcome,
                   viewOutcome, ioOutcome, assigned, named, track>>

\* The loop condition fails: wait_for_completion returns False.
wait_timeout ==
    /\ pc = "wait"
    /\ ~LoopCond(elapsed, timeout)
    /\ waitResult' = FALSE
    /\ track' = Append(track, "TimedOut")
    /\ pc' = "waited"
    /\ UNCHANGED <<env, fs, mainPc, i, counters, calls, result, prompt_id,
                   client_id, uuids, elapsed, pollLog, sleeps, history,
                   images, steps, viewed, written, submitOutcome,
                   fetchOutcome, viewOutcome, ioOutcome, assigned, named>>

\* Lines 369-371: wait_for_completion returned False, generate_asset
\* returns False.
generate_timeout ==
    /\ pc = "waited"
    /\ NotCompleted(waitResult)
    /\ result' = FALSE
    /\ track' = Append(track, "Failed")
    /\ pc' = "done"
    /\ UNCHANGED <<env, fs, mainPc, i, counters, calls, prompt_id, client_id,
                   uuids, elapsed, pollLog, sleeps, waitResult, history,
                   images, steps, viewed, written, submitOutcome,
                   fetchOutcome, viewOutcome, ioOutcome, assigned, named>>

\* Lines 374-377 with get_output_images: the history request is made again.
\* Nothing catches what urlopen, json.loads or the loop over the record
\* raise: the exception leaves generate_asset and main. The workflow has
\* one sink node, so the record of the service has at most one result node.
fetch_outputs ==
    /\ pc = "waited"
    /\ ~NotCompleted(waitResult)
    /\ steps' = Append(steps, "get_output_images")
    /\ named' = Append(named, HistoryPath(prompt_id))
    /\ \/ \E answer \in {"neterr", "badjson"} :
            /\ fetchOutcome' = answer
            /\ pc' = "raised"
            /\ mainPc' = "aborted"
            /\ UNCHANGED <<images, result, track>>
       \/ \E body \in Bodies(1, MaxImages) :
            LET r == get_output_images(body, prompt_id) IN
            IF r.end = "keyerror"
            THEN /\ fetchOutcome' = "keyerror"
                 /\ pc' = "raised"
                 /\ mainPc' = "aborted"
                 /\ UNCHANGED <<images, result, track>>
            ELSE /\ images' = r.images
                 /\ UNCHANGED mainPc
                 /\ IF NoImages(r.images)
                    THEN /\ fetchOutcome' = IF r.end = "absent"
                                            THEN "absent" ELSE "empty"
                         /\ result' = FALSE
                         /\ track' = Append(track, "Failed")
                         /\ pc' = "done"
                    ELSE /\ fetchOutcome' = "images"
                         /\ pc' = "fetched"
                         /\ UNCHANGED <<result, track>>
    /\ UNCHANGED <<env, fs, i, counters, calls, prompt_id, client_id, uuids,
                   elapsed, pollLog, sleeps, waitResult, history, viewed,
                   written, submitOutcome, viewOutcome, ioOutcome, assigned>>

\* How the file-system part of download_image ends for entry k when the
\* injected fault is io: os.makedirs (room only), open(path, 'wb'), write.
\* open fails when the parent directory does not exist.
IoEnd(s, k, ds, io) ==
    IF io = "mkdirerr" THEN "mkdirerr"
    ELSE IF ~HasMakedirs(s) /\ dirname(k) \notin ds THEN "noparent"
    ELSE io

\* Lines 380-386 with download_image: GET /view for images[0], then
\* makedirs (room only), open and write; every exception is caught.
download_image ==
    /\ pc = "fetched"
    /\ steps' = Append(steps, "download_image")
    /\ viewed' = Append(viewed, FirstImage(images))
    /\ \E view \in {"ok", "neterr"}, io \in IoAnswers(script) :
        /\ view = "neterr" => io = "ok"
        /\ viewOutcome' = view
        /\ IF ~BytesReceived(view)
           THEN /\ ioOutcome' = "none"
                /\ result' = FALSE
                /\ UNCHANGED <<fs, written>>
           ELSE LET end == IoEnd(script, i, dirs, io) IN
                /\ ioOutcome' = end
                /\ dirs' = IF HasMakedirs(script) /\ end # "mkdirerr"
                           THEN dirs \cup makedirs(dirname(i)) ELSE dirs
                /\ files' = IF end = "ok"
                            THEN [files EXCEPT ![i] = "new"]
                            ELSE IF end = "writeerr"
                            THEN [files EXCEPT ![i] = "partial"]
                            ELSE files
                /\ written' = IF end \in {"ok", "writeerr"}
                              THEN Append(written, i) ELSE written
                /\ result' = DownloadOk(view, end)
    /\ track' = Append(track, IF result' THEN "Downloaded" ELSE "Failed")
    /\ pc' = "done"
    /\ UNCHANGED <<env, mainPc, i, counters, calls, prompt_id, client_id,
                   uuids, elapsed, pollLog, sleeps, waitResult, history,
                   images, submitOutcome, fetchOutcome, assigned, named>>

\* Lines 412-415 and the test of line 418: main counts the outcome.
main_count ==
    /\ mainPc = "loop"
    /\ pc = "done"
    /\ IF result
       THEN successful' = successful + 1 /\ UNCHANGED failed
       ELSE failed' = failed + 1 /\ UNCHANGED successful
    /\ mainPc' = IF PauseAfter(i) THEN "pause" ELSE "next"
    /\ UNCHANGED <<env, fs, i, calls, pc, result, prompt_id, client_id,
                   uuids, elapsed, pollLog, sleeps, waitResult, history,
                   images, steps, viewed, written, submitOutcome,
                   fetchOutcome, viewOutcome, ioOutcome, assigned, named,
                   track>>

\* time.sleep(1) between two entries.
main_pause ==
    /\ mainPc = "pause"
    /\ mainPc' = "next"
    /\ UNCHANGED <<env, fs, i, counters, calls, pc, result, prompt_id,
                   client_id, uuids, elapsed, pollLog, sleeps, waitResult,
                   history, images, steps, viewed, written, submitOutcome,
                   fetchOutcome, viewOutcome, ioOutcome, assigned, named,
                   track>>

\* The for statement takes the next entry; the locals of the call that
\* returned are gone.
main_next ==
    /\ mainPc = "next"
    /\ i < CatalogSize
    /\ i' = i + 1
    /\ mainPc' = "loop"
    /\ pc' = "idle"
    /\ result' = FALSE
    /\ prompt_id' = None
    /\ client_id' = 0
    /\ elapsed' = 0
    /\ pollLog' = <<>>
    /\ sleeps' = 0
    /\ waitResult' = FALSE
    /\ images' = <<>>
    /\ steps' = <<>>
    /\ viewed' = <<>>
    /\ written' = <<>>
    /\ submitOutcome' = "none"
    /\ fetchOutcome' = "none"
    /\ viewOutcome' = "none"
    /\ ioOutcome' = "none"
    /\ named' = <<>>
    /\ track' = <<>>
    /\ UNCHANGED <<env, fs, counters, calls, uuids, history, assigned>>

\* The for statement finds no entry left: the summary is printed and main
\* returns.
main_end ==
    /\ mainPc = "next"
    /\ i >= CatalogSize
    /\ mainPc' = "done"
    /\ UNCHANGED <<env, fs, i, counters, calls, pc, result, prompt_id,
                   client_id, uuids, elapsed, pollLog, sleeps, waitResult,
                   history, images, steps, viewed, written, submitOutcome,
                   fetchOutcome, viewOutcome, ioOutcome, assigned, named,
                   track>>

Next ==
    \/ main_start
    \/ create_workflow
    \/ queue_prompt
    \/ poll
    \/ sleep
    \/ wait_timeout
    \/ generate_timeout
    \/ fetch_outputs
    \/ download_image
    \/ main_count
    \/ main_pause
    \/ main_next
    \/ main_end

Spec == Init /\ [][Next]_vars

\* ------------------------------------------- get_output_images on its own
\* get_output_images called on any parsed history body for any job
\* identifier, outside a batch.
InitFetch ==
    /\ script = "room"
    /\ timeout = MaxTimeout
    /\ dirs = AllDirs
    /\ files = [k \in Catalog |-> "absent"]
    /\ mainPc = "none"
    /\ i = 1
    /\ successful = 0
    /\ failed = 0
    /\ calls = <<>>
    /\ uuids = {}
    /\ history \in Bodies(MaxNodes, MaxImages)
    /\ assigned = {}
    /\ named = <<>>
    /\ track = <<>>
    /\ request = DefaultRequest
    /\ built = <<>>
    /\ pc = "idle"
    /\ result = FALSE
    /\ prompt_id \in JobIds
    /\ client_id = 0
    /\ elapsed = 0
    /\ pollLog = <<>>
    /\ sleeps = 0
    /\ waitResult = FALSE
    /\ images = <<>>
    /\ steps = <<>>
    /\ viewed = <<>>
    /\ written = <<>>
    /\ submitOutcome = "none"
    /\ fetchOutcome = "none"
    /\ viewOutcome = "none"
    /\ ioOutcome = "none"

call_get_output_images ==
    /\ mainPc = "none"
    /\ pc = "idle"
    /\ LET r == get_output_images(history, prompt_id) IN
        /\ images' = r.images
        /\ fetchOutcome' = r.end
    /\ pc' = "returned"
    /\ UNCHANGED <<env, fs, mainPc, i, counters, calls, result, prompt_id,
                   client_id, uuids, elapsed, pollLog, sleeps, waitResult,
                   history, steps, viewed, written, submitOutcome,
                   viewOutcome, ioOutcome, assigned, named, track>>

NextFetch == call_get_output_images

SpecFetch == InitFetch /\ [][NextFetch]_vars

\* ---------------------------------------------- create_workflow on its own

\* random.randint(a, b): any integer N with a <= N <= b, both ends included.
\* The draws kept are the values at and next to the two ends.
randint(a, b) == { n \in {a, a + 1, b - 1, b} : a <= n /\ n <= b }

\* The seed argument of create_workflow: <<>> when omitted (seed=None), <<v>>
\* when the caller passes v.
SeedArgs == {<<>>} \cup { <<v>> : v \in {0, 42} }

\* Faulty variant of ChooseSeed: `if not seed`, which also replaces a seed
\* of 0.
ChooseSeedFalsy(seed, drawn) ==
    IF seed = <<>> \/ seed = <<0>> THEN drawn ELSE seed[1]

\* Faulty variant of ChooseSeed: an omitted seed falls back to a fixed
\* default instead of the value drawn in this call.
ChooseSeedDefault(seed, drawn) == IF seed = <<>> THEN 1 ELSE seed[1]

\* `if seed is None: seed = random.randint(1, 999999999)`.
ChooseSeed(seed, drawn) == IF seed = <<>> THEN drawn ELSE seed[1]

\* asset dictionaries, with asset.get('width', 512), asset.get('height', 512)
\* and asset.get('steps', 25) applied.
Requests ==
    [prompt : {"p", "q"}, negative : {"n"}, width : {512, 1920},
     height : {512}, steps : {25, 30}]

\* Node references ["4", 0], ["6", 0], ... are pairs <<node id, slot>>.
\* The floats 7.5 and 1.0 are kept as their literals.

\* Faulty variant of KSampler: the seed also decides the number of steps.
KSamplerSeedInSteps(seed, nsteps) ==
    [class_type |-> "KSampler",
     inputs |-> [seed |-> seed, steps |-> nsteps + (seed % 2), cfg |-> "7.5",
                 sampler_name |-> "dpmpp_2m", scheduler |-> "karras",
                 denoise |-> "1.0", model |-> <<"4", 0>>,
                 positive |-> <<"6", 0>>, negative |-> <<"7", 0>>,
                 latent_image |-> <<"5", 0>>]]

\* Node "3".
KSampler(seed, nsteps) ==
    [class_type |-> "KSampler",
     inputs |-> [seed |-> seed, steps |-> nsteps, cfg |-> "7.5",
                 sampler_name |-> "dpmpp_2m", scheduler |-> "karras",
                 denoise |-> "1.0", model |-> <<"4", 0>>,
                 positive |-> <<"6", 0>>, negative |-> <<"7", 0>>,
                 latent_image |-> <<"5", 0>>]]

\* Node "4".
CheckpointLoaderSimple ==
    [class_type |-> "CheckpointLoaderSimple",
     inputs |-> [ckpt_name |-> CHECKPOINT]]

\* Node "5".
EmptyLatentImage(width, height) ==
    [class_type |-> "EmptyLatentImage",
     inputs |-> [width |-> width, height |-> height, batch_size |-> 1]]

\* Nodes "6" and "7".
CLIPTextEncode(text) ==
    [class_type |-> "CLIPTextEncode",
     inputs |-> [text |-> text, clip |-> <<"4", 1>>]]

\* Node "8".
VAEDecode ==
    [class_type |-> "VAEDecode",
     inputs |-> [samples |-> <<"3", 0>>, vae |-> <<"4", 2>>]]

\* Node "9": the prefix is "asset" in the room script and "puzzle_asset" in
\* the other two.
SaveImage(s) ==
    [class_type |-> "SaveImage",
     inputs |-> [filename_prefix |->
                     IF s = "room" THEN "asset" ELSE "puzzle_asset",
                 images |-> <<"8", 0>>]]

\* The dictionary create_workflow returns. Only the room script's
\* create_workflow takes width, height and steps; the other two build
\* 512 x 512 images in 25 steps whatever the asset says.
workflow(s, req, seed) ==
    LET room == s = "room" IN
    [n \in {"3", "4", "5", "6", "7", "8", "9"} |->
        CASE n = "3" -> KSampler(seed, IF room THEN req.steps ELSE 25)
          [] n = "4" -> CheckpointLoaderSimple
          [] n = "5" -> EmptyLatentImage(IF room THEN req.width ELSE 512,
                                         IF room THEN req.height ELSE 512)
          [] n = "6" -> CLIPTextEncode(req.prompt)
          [] n = "7" -> CLIPTextEncode(req.negative)
          [] n = "8" -> VAEDecode
          [] n = "9" -> SaveImage(s)]

InitBuild ==
    /\ script \in Scripts
    /\ request \in Requests
    /\ built = <<>>
    /\ timeout = MaxTimeout
    /\ dirs = AllDirs
    /\ files = [k \in Catalog |-> "absent"]
    /\ mainPc = "none"
    /\ i = 1
    /\ successful = 0
    /\ failed = 0
    /\ calls = <<>>
    /\ uuids = {}
    /\ history = EmptyBody
    /\ assigned = {}
    /\ prompt_id = None
    /\ client_id = 0
    /\ pc = "idle"
    /\ result = FALSE
    /\ elapsed = 0
    /\ pollLog = <<>>
    /\ sleeps = 0
    /\ waitResult = FALSE
    /\ images = <<>>
    /\ steps = <<>>
    /\ viewed = <<>>
    /\ written = <<>>
    /\ submitOutcome = "none"
    /\ fetchOutcome = "none"
    /\ viewOutcome = "none"
    /\ ioOutcome = "none"
    /\ named = <<>>
    /\ track = <<>>

\* One invocation of create_workflow for the request, with the seed omitted
\* or pinned; random.randint is evaluated only when the seed is omitted.
call_create_workflow ==
    /\ mainPc = "none"
    /\ Len(built) < MaxBuilds
    /\ \E arg \in SeedArgs, r \in randint(1, SEED_MAX) :
        built' = Append(built,
                    [seed |-> arg,
                     drawn |-> IF arg = <<>> THEN <<r>> ELSE <<>>,
                     workflow |-> workflow(script, request,
                                           ChooseSeed(arg, r))])
    /\ UNCHANGED <<script, timeout, request, fs, mainPc, i, counters, calls,
                   pc, result, prompt_id, client_id, uuids, elapsed, pollLog,
                   sleeps, waitResult, history, images, steps, viewed,
                   written, submitOutcome, fetchOutcome, viewOutcome,
                   ioOutcome, assigned, named, track>>

NextBuild == call_create_workflow

SpecBuild == InitBuild /\ [][NextBuild]_vars

\* ----------------------------------------------------------------- claims
\* Helpers of the formulas below.
StepOrder ==
    <<"create_workflow", "queue_prompt", "wait_for_completion",
      "get_output_images", "download_image">>
IsPrefix(a, b) == Len(a) <= Len(b) /\ a = SubSeq(b, 1, Len(a))
Ran(f) == { f[k] : k \in DOMAIN f }
MainEnded == mainPc \in {"done", "aborted"}

\* C1: whatever the remote service does at submit, at a poll, at
\* fetchOutputs or at download, generate_asset ends by returning a boolean
\* and never by a propagated exception.
C1_GenerateReturnsBoolean == pc # "raised"

\* C2: the batch is never aborted: when main ends, generate_asset has been
\* called exactly once for every catalog entry, in catalog order, and
\* successful + failed equals the catalog size.
C2_BatchNeverAborted ==
    MainEnded =>
        /\ calls = [k \in 1..CatalogSize |-> k]
        /\ successful + failed = CatalogSize

C4_SubmissionErrorThreeCases ==
    submitOutcome \in {"neterr", "badjson", "noid"} =>
        /\ pc = "done"
        /\ result = FALSE
        /\ pollLog = <<>>

\* C5: wait_for_completion returns True as soon as one poll shows the job
\* identifier, with no further poll or sleep, and returns False when the
\* loop finds the timeout elapsed before any poll showed it, whatever failed
\* polls came in between; it never raises.
C5_AwaitCompletion ==
    /\ \A k \in 1..Len(pollLog) :
           pollLog[k] = "present" =>
               /\ k = Len(pollLog)
               /\ waitResult
               /\ pc \notin {"wait", "sleep"}
               /\ sleeps = k - 1
    /\ (pc = "waited" /\ waitResult =>
            pollLog # <<>> /\ pollLog[Len(pollLog)] = "present")
    /\ (pc = "waited" /\ ~waitResult =>
            /\ "present" \notin Ran(pollLog)
            /\ elapsed >= timeout
            /\ sleeps = Len(pollLog))
    /\ (pc = "raised" => fetchOutcome # "none")

\* C5 witness: True returned at the second poll, after a failed first poll.
C5_Witness ==
    /\ pc = "waited"
    /\ waitResult
    /\ Len(pollLog) = 2
    /\ pollLog[1] \in {"neterr", "badjson"}
    /\ pollLog[2] = "present"

\* C5 second case reached as well: False returned after failed polls only.
C5_WitnessTimeout ==
    /\ pc = "waited"
    /\ ~waitResult
    /\ Len(pollLog) = 2
    /\ Ran(pollLog) \subseteq {"neterr", "badjson"}

\* C6: with timeout 1, poll interval 2 and a history endpoint that always
\* answers {}, generate_asset returns False after exactly one poll, and
\* neither get_output_images nor download_image makes a request.
C6_TimeoutScenario ==
    (timeout = 1 /\ Ran(pollLog) \subseteq {"absent"}) =>
        /\ Len(pollLog) <= 1
        /\ (pc \in {"waited", "done"} /\ Len(steps) >= 3 =>
                /\ Len(pollLog) = 1
                /\ ~waitResult
                /\ (pc = "done" => result = FALSE)
                /\ Len(steps) = 3
                /\ fetchOutcome = "none"
                /\ viewed = <<>> /\ written = <<>>)

\* C6 witness: the scenario has run to the end of the call.
C6_Witness ==
    /\ timeout = 1
    /\ pc = "done"
    /\ pollLog = <<"absent">>
    /\ sleeps = 1
    /\ result = FALSE

\* C7: generate_asset returns True exactly when submit returned a job
\* identifier, a poll showed it before the timeout, get_output_images
\* returned at least one image and the byte fetch and the file write
\* succeeded; then exactly one file has been written, at the destination of
\* the request's filename.
C7_SuccessPath ==
    pc = "done" =>
        /\ result =
             ( /\ submitOutcome \in JobIds
               /\ waitResult
               /\ fetchOutcome = "images"
               /\ viewOutcome = "ok"
               /\ ioOutcome = "ok" )
        /\ (result =>
              /\ prompt_id = submitOutcome
              /\ pollLog # <<>> /\ pollLog[Len(pollLog)] = "present"
              /\ images # <<>>
              /\ written = <<i>>
              /\ files[i] = "new"
              /\ dirname(i) \in dirs)

\* C7 witness: the end-to-end scenario (first poll {}, second the record).
C7_Witness ==
    /\ pc = "done"
    /\ result
    /\ pollLog = <<"absent", "present">>
    /\ written = <<i>>
    /\ files[i] = "new"

\* The result nodes of the record get_output_images was given, the number
\* of images node n lists, and the number of images listed before node n.
Outs == Get(history[prompt_id], "outputs", <<>>)
Count(n) == IF "images" \in DOMAIN Outs[n] THEN Len(Outs[n].images) ELSE 0
Offset(n) ==
    Cardinality(UNION { { <<m, k>> : k \in 1..Count(m) } : m \in 1..(n - 1) })

\* C8: get_output_images returns the empty list when the history response
\* lacks the job identifier; otherwise it returns one Output Reference per
\* image of every result node that has an images list, in the order the
\* nodes and images are met, with a missing subfolder defaulted to "" and a
\* missing type defaulted to "output".
C8_FetchOutputs ==
    pc = "returned" =>
        IF prompt_id \notin DOMAIN history
        THEN fetchOutcome = "absent" /\ images = <<>>
        ELSE fetchOutcome = "returned" =>
             /\ Len(images) = Offset(Len(Outs) + 1)
             /\ \A n \in 1..Len(Outs) : \A k \in 1..Count(n) :
                   LET ref  == images[Offset(n) + k]
                       info == Outs[n].images[k]
                   IN /\ DOMAIN ref = {"filename", "subfolder", "type"}
                      /\ ref.filename = info.filename
                      /\ ref.subfolder = IF "subfolder" \in DOMAIN info
                                         THEN info.subfolder ELSE ""
                      /\ ref.type = IF "type" \in DOMAIN info
                                    THEN info.type ELSE "output"

\* C8 witness: two result nodes with one image each give two references in
\* the order met, the first with both defaults applied.
C8_Witness ==
    /\ pc = "returned"
    /\ prompt_id \in DOMAIN history
    /\ "outputs" \in DOMAIN history[prompt_id]
    /\ Len(Outs) = 2
    /\ Count(1) = 1 /\ Count(2) = 1
    /\ DOMAIN Outs[1].images[1] = {"filename"}
    /\ Len(images) = 2
    /\ images[1] = [filename |-> "f1", subfolder |-> "", type |-> "output"]
    /\ images[2] = [filename |-> "f2", subfolder |-> "s", type |-> "temp"]

\* C9: in each of the three scripts download_image creates every missing
\* parent directory of the destination before it writes, and returns False
\* without raising when the network call or the file write fails: once the
\* bytes are received and the file system reports no fault, the parent
\* directory exists and the file is written.
C9_DownloadCreatesParents ==
    /\ (pc = "done" /\ viewOutcome = "ok"
          /\ ioOutcome \notin {"mkdirerr", "openerr", "writeerr"} =>
            /\ dirname(i) \in dirs
            /\ files[i] = "new"
            /\ result)
    /\ (pc = "done" /\ Len(steps) = 5
          /\ (viewOutcome = "neterr"
                \/ ioOutcome \in {"mkdirerr", "openerr", "writeerr"}) =>
            result = FALSE)

\* C10 as stated: for a history record that lists n >= 1 images, one
\* generate_asset call issues exactly one /view request, for the first
\* Output Reference, and writes exactly one file.
C10_OneViewOneFile ==
    pc = "done" /\ fetchOutcome = "images" =>
        /\ viewed = <<images[1]>>
        /\ Len(written) = 1

\* C10 amended: when get_output_images returns n >= 1 Output References, the
\* call issues exactly one /view request, for the first of them, and no
\* other reference is requested; it writes at most one file, the one at the
\* request's destination: exactly one when the /view request succeeds and
\* the file can be opened, none otherwise.
C10_OneViewAtMostOneFile ==
    /\ (pc = "fetched" => images # <<>> /\ viewed = <<>> /\ written = <<>>)
    /\ (pc = "done" /\ fetchOutcome = "images" =>
            /\ images # <<>>
            /\ viewed = <<images[1]>>
            /\ written = IF viewOutcome = "ok"
                            /\ ioOutcome \in {"ok", "writeerr"}
                         THEN <<i>> ELSE <<>>)
    /\ (fetchOutcome # "images" => viewed = <<>> /\ written = <<>>)

\* C10 witness: two different references were returned, the first one was
\* requested and one file was written.
C10_Witness ==
    /\ pc = "done"
    /\ Len(images) = 2
    /\ images[1] # images[2]
    /\ viewed = <<images[1]>>
    /\ written = <<i>>
    /\ result

\* ------------------------------------------------ per-request state machine

\* The request states of the specification's state machine, as the code
\* enters them: Built when create_workflow has returned, Submitted when
\* queue_prompt has returned a handle, Completed or TimedOut when
\* wait_for_completion has returned True or False, Downloaded or Failed when
\* generate_asset returns True or False.
Terminal(t) == t # <<>> /\ t[Len(t)] \in {"Downloaded", "Failed"}
FullPaths ==
    { <<"Built", "Submitted", w, e>> :
        w \in {"Completed", "TimedOut"}, e \in {"Downloaded", "Failed"} }
NoStateTwice(t) == \A a, b \in DOMAIN t : a # b => t[a] # t[b]

\* C11 (as stated): every request follows Built, Submitted, then Completed or
\* TimedOut, then Downloaded or Failed: its states so far are a prefix of such
\* a path, so a request in a terminal state has been Submitted and has been
\* Completed or TimedOut before; no state is entered twice; in a terminal
\* state the client does nothing more for the request.
C11_StateMachineAsStated ==
    /\ \E p \in FullPaths : IsPrefix(track, p)
    /\ NoStateTwice(track)
    /\ Terminal(track) => pc = "done"

\* C11 (amended): a request whose submission fails goes from Built straight
\* to Failed, and that is the only way past Submitted; every other request
\* follows Built, Submitted, Completed then Downloaded or Failed, or Built,
\* Submitted, TimedOut, Failed. Downloaded is reached only after Submitted and
\* Completed, no state is entered twice, and in a terminal state the client
\* has returned from generate_asset and makes no further step for the request.
C11_RequestStateMachine ==
    /\ \/ \E p \in FullPaths \ {<<"Built", "Submitted", "TimedOut", "Downloaded">>} :
            IsPrefix(track, p)
       \/ track = <<"Built", "Failed">> /\ QueueRaises(submitOutcome)
    /\ QueueRaises(submitOutcome) => track = <<"Built", "Failed">>
    /\ NoStateTwice(track)
    /\ Terminal(track) <=> pc = "done"
    /\ Terminal(track) => result = (track[Len(track)] = "Downloaded")

\* A request that failed at submission, and one that went the whole way.
C11_Witness ==
    /\ track = <<"Built", "Failed">>
    /\ submitOutcome = "neterr"
    /\ i = CatalogSize
    /\ successful = 1

\* ------------------------------------------------- one outstanding request

\* A step that sends an HTTP request: the POST of queue_prompt, a GET
\* /history of a poll or of get_output_images, the GET /view of
\* download_image.
IssuesRequest ==
    \/ submitOutcome = "none" /\ submitOutcome' # "none"
    \/ Len(pollLog') > Len(pollLog)
    \/ Len(named') > Len(named)
    \/ Len(viewed') > Len(viewed)

\* Job identifiers assigned to requests that came before the current one.
Retired == assigned \ {submitOutcome}

\* C12: requests are resolved one after another and at most one job is
\* outstanding: an HTTP request is sent only inside the generate_asset call
\* of the current catalog entry, which has not returned, while every earlier
\* entry has returned and has been counted; and no GET /history names the job
\* identifier of an earlier entry, whether that entry ended by a download, a
\* failure or a timeout.
C12_OneOutstandingJob ==
    [][ /\ IssuesRequest =>
            /\ mainPc = "loop"
            /\ pc \in {"built", "wait", "waited", "fetched"}
            /\ Len(calls) = i
            /\ calls[i] = i
            /\ successful + failed = i - 1
        /\ Len(named') > Len(named) => named'[Len(named')] \notin Retired
      ]_vars

\* The second entry polls for its own job after the first entry's job was
\* given up at the timeout.
C12_Witness ==
    /\ i = 2
    /\ failed = 1
    /\ Cardinality(assigned) = 2
    /\ pc = "sleep"
    /\ named = <<prompt_id>>
    /\ prompt_id \in JobIds

\* ------------------------------------------------------------------- seeds

\* The "seed" input of the sampling node of the k-th graph built, whether the
\* k-th invocation left the seed out, and the seed it was given.
SeedOf(k) == built[k].workflow["3"].inputs.seed
Omitted(k) == built[k].seed = <<>>
Pinned(k) == built[k].seed[1]

\* C13 (as stated): without a seed argument the seed s of the sampling node
\* satisfies 1 <= s < 999999999, the upper end excluded; with a seed argument
\* the seed is that value.
C13_SeedBelowUpperEnd ==
    \A k \in DOMAIN built :
        /\ Omitted(k) => 1 <= SeedOf(k) /\ SeedOf(k) < SEED_MAX
        /\ ~Omitted(k) => SeedOf(k) = Pinned(k)

\* C13 (amended): without a seed argument the seed s of the sampling node
\* satisfies 1 <= s <= 999999999, both ends included; with a seed argument,
\* 0 included, the seed is that value.
C13_SeedRange ==
    \A k \in DOMAIN built :
        /\ Omitted(k) => 1 <= SeedOf(k) /\ SeedOf(k) <= SEED_MAX
        /\ ~Omitted(k) => SeedOf(k) = Pinned(k)

\* One invocation drew the upper end, another was given the seed 0.
C13_Witness ==
    /\ Len(built) = 2
    /\ Omitted(1) /\ SeedOf(1) = SEED_MAX
    /\ ~Omitted(2) /\ Pinned(2) = 0 /\ SeedOf(2) = 0

\* C14 (as stated): two invocations that both left the seed out never have
\* the same seed, and two invocations have the same seed only if both were
\* given it.
C14_NoSharedSeed ==
    \A j, k \in DOMAIN built :
        j # k /\ SeedOf(j) = SeedOf(k) => ~Omitted(j) /\ ~Omitted(k)

\* C14 (amended): an invocation that left the seed out uses the value its own
\* call of random.randint returned, whatever the invocations before it used;
\* so it has the seed of another invocation only if its own draw happens to be
\* that value, and a seed is carried from one invocation to another only by
\* the caller passing it.
C14_SeedDrawnPerCall ==
    \A k \in DOMAIN built :
        Omitted(k) =>
            /\ built[k].drawn # <<>>
            /\ SeedOf(k) = built[k].drawn[1]
            /\ \A j \in DOMAIN built :
                   j # k /\ SeedOf(j) = SeedOf(k) =>
                       built[k].drawn[1] =
                           IF Omitted(j) THEN built[j].drawn[1] ELSE Pinned(j)

\* Two invocations without a seed whose draws differ: the second one did
\* not reuse the first one's seed.
C14_Witness ==
    /\ Len(built) = 2
    /\ Omitted(1) /\ Omitted(2)
    /\ SeedOf(1) # SeedOf(2)

\* C15: for one request, any two graphs create_workflow returns have the same
\* seven node identifiers "3" to "9", and at every node the same class_type
\* and the same inputs (literals and node references), except for the "seed"
\* input of node "3"; two invocations given the same seed return equal graphs.
C15_DeterministicButSeed ==
    \A j, k \in DOMAIN built :
        LET a == built[j].workflow
            b == built[k].workflow
        IN  /\ DOMAIN a = {"3", "4", "5", "6", "7", "8", "9"}
            /\ DOMAIN b = DOMAIN a
            /\ \A n \in DOMAIN a :
                /\ a[n].class_type = b[n].class_type
                /\ n # "3" => a[n].inputs = b[n].inputs
                /\ n = "3" => [a[n].inputs EXCEPT !.seed = 0]
                                = [b[n].inputs EXCEPT !.seed = 0]
            /\ ~Omitted(j) /\ ~Omitted(k) /\ Pinned(j) = Pinned(k) => a = b

\* Two graphs for a request with its own width and steps, built without a
\* seed, that differ (in the seed).
C15_Witness ==
    /\ Len(built) = 2
    /\ script = "room"
    /\ request.width = 1920 /\ request.steps = 30
    /\ Omitted(1) /\ Omitted(2)
    /\ built[1].workflow # built[2].workflow
    /\ SeedOf(1) % 2 # SeedOf(2) % 2

\* ------------------------------------------------------- the polling loop

\* wait_for_completion has returned (elapsed is the time since start_time).
Waited == pc = "waited"
LastPoll == pollLog[Len(pollLog)]
FailedPoll(a) == a \in {"neterr", "badjson"}

\* C16 (as stated): wait_for_completion has returned by the time timeout
\* seconds have passed since its start, whatever the polls answered.
C16_ReturnsByDeadline ==
    Waited => elapsed <= (IF timeout > 0 THEN timeout ELSE 0)

\* C16 (amended): the deadline is looked at only before a poll, so a poll
\* begun before the deadline and the sleep after it are not cut short:
\* wait_for_completion returns True before timeout plus the duration of one
\* poll has passed, and returns False before timeout plus the duration of one
\* poll plus the 2-second sleep has passed, and at once if it polled never.
C16_ReturnsAfterLastIteration ==
    Waited =>
        /\ pollLog = <<>> => elapsed = 0
        /\ waitResult => elapsed < timeout + MaxPollDur
        /\ elapsed < timeout + MaxPollDur + POLL_INTERVAL
        /\ ~waitResult => elapsed >= timeout

\* A poll begun one second before the deadline fails, the sleep follows, and
\* the return comes MaxPollDur + 1 seconds late.
C16_Witness ==
    /\ Waited
    /\ ~waitResult
    /\ timeout > 0
    /\ pollLog # <<>>
    /\ FailedPoll(LastPoll)
    /\ elapsed = timeout + MaxPollDur + POLL_INTERVAL - 1

\* ------------------------------------------------------------- job handles

\* The step in which queue_prompt sends its POST.
Submits == submitOutcome = "none" /\ submitOutcome' # "none"

\* What the submission of the current call returned as prompt_id.
OwnJob == IF submitOutcome \in JobIds THEN submitOutcome ELSE None

\* C17: a job handle is used only by the request whose submission created
\* it: every GET /history of a generate_asset call, from the polling loop or
\* from get_output_images, names the prompt_id the call's own queue_prompt
\* returned; every POST carries a client_id drawn for it, which no earlier
\* POST carried; and the prompt_id and client_id a call holds are not those of
\* an earlier call.
C17_HandleUsedByOwnRequest ==
    [][ /\ Submits =>
            /\ client_id' \notin uuids
            /\ client_id' \in uuids'
            /\ prompt_id' \notin assigned
        /\ Len(named') > Len(named) =>
            /\ named'[Len(named')] = OwnJob
            /\ prompt_id = OwnJob
            /\ OwnJob \notin Retired
      ]_vars

\* The second call, after a first call that got a job of its own, has polled
\* and asked for the outputs under its own job identifier and client
\* identifier.
C17_Witness ==
    /\ i = 2
    /\ Cardinality(assigned) = 2
    /\ Cardinality(uuids) = 2
    /\ Len(named) >= 2
    /\ fetchOutcome = "images"
    /\ \A k \in DOMAIN named : named[k] = submitOutcome

\* The step in which the polling loop has made a request and got answer a.
Polled(a) == Len(pollLog') = Len(pollLog) + 1 /\ pollLog'[Len(pollLog')] = a

\* C18: a poll that fails (network failure, malformed body) is handled like
\* a poll whose body lacks the identifier: neither ends the loop nor sets the
\* result, after either the loop sleeps POLL_INTERVAL seconds and comes back
\* to the deadline check, whichever is made next depends on the time elapsed
\* only; and however many polls failed, False is returned only at the
\* deadline and True exactly when the last poll showed the identifier.
C18_FailedPollLikeAbsent ==
    [][ /\ \A a \in {"neterr", "badjson", "absent"} :
            Polled(a) =>
                /\ pc' = "sleep"
                /\ UNCHANGED <<waitResult, track, sleeps, result>>
        /\ pc = "sleep" =>
            /\ pc' = "wait"
            /\ elapsed' = elapsed + POLL_INTERVAL
            /\ sleeps' = sleeps + 1
            /\ UNCHANGED <<pollLog, waitResult, track>>
        /\ pc = "wait" =>
            /\ (\E a \in PollAnswers : Polled(a)) <=> elapsed < timeout
            /\ pc' = "waited" /\ ~waitResult' <=> elapsed >= timeout
        /\ Waited =>
            /\ waitResult <=> pollLog # <<>> /\ LastPoll = "present"
            /\ ~waitResult => sleeps = Len(pollLog) /\ elapsed >= timeout
      ]_vars

\* A poll failed, the loop went on, and the next poll found the job.
C18_Witness ==
    /\ Waited
    /\ waitResult
    /\ pollLog = <<"badjson", "present">>
    /\ sleeps = 1

\* ------------------------------------------------------ the pause in main

\* The batch without the pause is main with main_count going straight on to
\* the for statement. Its control point for a control point of main:
PauseFree(m) == IF m = "pause" THEN "next" ELSE m

\* Everything but main's control point: the per-request outcomes, the files
\* written, the counts, and every input of the calls still to come.
besidesMainPc ==
    <<env, fs, i, counters, calls, pc, result, prompt_id, client_id, uuids,
      elapsed, pollLog, sleeps, waitResult, history, images, steps, viewed,
      written, submitOutcome, fetchOutcome, viewOutcome, ioOutcome, assigned,
      named, track>>

\* C19: the pause changes no result. Seen through PauseFree, every step of
\* main is a step of the batch without the pause or changes nothing: the
\* pause itself leaves the outcomes, the files, the counts and all other
\* state as they are, and the step into the pause is the counting step of
\* the batch without it. The pause is made between two entries only, never
\* after the last one, and the run with it ends with every entry counted.
C19_PauseChangesNoResult ==
    [][ /\ mainPc = "pause" =>
            /\ UNCHANGED besidesMainPc
            /\ PauseFree(mainPc') = PauseFree(mainPc)
            /\ i < CatalogSize
        /\ mainPc' = "pause" =>
            /\ mainPc = "loop"
            /\ pc = "done"
            /\ PauseFree(mainPc') = "next"
            /\ successful' + failed' = i
            /\ successful' = successful + (IF result THEN 1 ELSE 0)
            /\ UNCHANGED <<fs, written, result>>
        /\ mainPc' = "done" => i = CatalogSize /\ successful + failed = i
      ]_vars

\* The pause after the first entry, whose file was written, has been made.
C19_Witness ==
    /\ mainPc = "next"
    /\ i = 1
    /\ i < CatalogSize
    /\ successful = 1
    /\ files[1] = "new"

\* Every poll so far took no time: all the time elapsed was slept.
PollsTookNoTime == elapsed = POLL_INTERVAL * sleeps

\* ceil(t / 2) for t >= 0, and 0 below.
HalfUp(t) == IF t > 0 THEN (t + 1) \div 2 ELSE 0

\* C20: a poll is begun only while the time elapsed since start_time is
\* strictly below timeout, never at or after the deadline; with a timeout of
\* 0 or less there is no poll and the result is False; and as long as polls
\* take no time, at most ceil(timeout / 2) of them are made.
C20_PollOnlyBeforeDeadline ==
    [][ /\ (\E a \in PollAnswers : Polled(a)) =>
            /\ elapsed < timeout
            /\ pc = "wait"
        /\ timeout <= 0 =>
            /\ pollLog' = <<>>
            /\ elapsed' = 0
            /\ pc' = "waited" => ~waitResult'
        /\ PollsTookNoTime' => Len(pollLog') <= HalfUp(timeout)
        /\ Len(pollLog') <= sleeps' + 1
      ]_vars

\* With polls that take no time, the largest number of polls were made and
\* the deadline ended the loop.
C20_Witness ==
    /\ Waited
    /\ ~waitResult
    /\ timeout >= 3
    /\ PollsTookNoTime
    /\ Len(pollLog) = HalfUp(timeout)
    /\ elapsed >= timeout

\* -------------------------------------------------- failures and the files

\* generate_asset has returned False without download_image having received
\* the image bytes: the submission failed, the wait timed out, there was no
\* output image, or GET /view failed.
FailedBeforeBytes == pc = "done" /\ ~result /\ viewOutcome # "ok"

\* A step of the current generate_asset call.
CallStep == mainPc = "loop" /\ pc # pc'

\* C21: a generate_asset call that fails before the image bytes have been
\* received leaves the file system as it was. No step of a call other than
\* download_image with the bytes in hand creates a directory or touches a
\* file, so at such a failure the call has opened no file, the destination is
\* what it was before the run, and a file an earlier run left there is still
\* that file.
C21_FailureLeavesFiles ==
    [][ /\ CallStep /\ viewOutcome' # "ok" =>
            UNCHANGED <<dirs, files, written>>
        /\ FailedBeforeBytes' =>
            /\ written' = <<>>
            /\ files'[i'] \in {"absent", "old"}
        /\ \A k \in Catalog :
            files'[k] # files[k] =>
                /\ k = i
                /\ viewOutcome' = "ok"
                /\ files'[k] \in {"new", "partial"}
        /\ dirs' # dirs /\ mainPc # "start" => viewOutcome' = "ok"
        /\ FailedBeforeBytes =>
            /\ ioOutcome = "none"
            /\ CallStep => UNCHANGED <<dirs, files, written>>
      ]_vars

\* GET /view failed for an entry whose file an earlier run had written; the
\* file is still there.
C21_Witness ==
    /\ FailedBeforeBytes
    /\ viewOutcome = "neterr"
    /\ fetchOutcome = "images"
    /\ files[i] = "old"
    /\ dirs = AllDirs

====
